---- MODULE Spec2Model ----
(***************************************************************************)
(* Model of the cube demo (src/apps/cube/main.cpp): the main loop that     *)
(* drains the SDL event queue and calls Application::render(), and the     *)
(* four phases of render(): model-uniform write, scene pass encoding,      *)
(* ImGui frame (pointer tracker and phi/theta sliders), submission.        *)
(*                                                                         *)
(* Angles are integers in microradians.  The sliders are sampled at the    *)
(* ends and the middle of their tracks, so every angle lies within a       *)
(* milliradian of a multiple of pi/2; sines and cosines are evaluated at   *)
(* that multiple, which makes the entries of the rotation matrix integers. *)
(* Pointer positions are integer pixels.                                   *)
(***************************************************************************)
EXTENDS Integers, Sequences, FiniteSets

VARIABLES
  pc,                 \* position of main(): "poll", "model", "scene", "ui", "submit", "done"
  running,            \* the loop variable of main()
  sdlQueued,          \* number of events queued in SDL, not yet polled
  pending,            \* input forwarded to ImGui by processEvent, not yet sampled
  io,                 \* ImGuiIO as sampled by the last NewFrame: MousePos, MouseDown
  state,              \* Application::state
  cameraUniform,      \* contents of the "camera" buffer
  modelUniform,       \* contents of the "model" buffer
  gpu,                \* per-frame GPU objects and the log of GPU calls of the frame
  preDrag,            \* history: the uniforms when the current gesture began
  dragMoved,          \* history: the pointer left the start point in the last gesture
  dragEdited,         \* history: a slider value changed in the current gesture so far
  quitPolled,         \* history: an SDL_EVENT_QUIT was polled
  rendersAfterQuit,   \* history: calls of render() made after QUIT was polled
  forwardedAfterQuit  \* history: an event was forwarded after QUIT in the same round

vars == <<pc, running, sdlQueued, pending, io, state, cameraUniform, modelUniform,
          gpu, preDrag, dragMoved, dragEdited, quitPolled,
          rendersAfterQuit, forwardedAfterQuit>>

----------------------------------------------------------------------------
(* Bounds of the model *)

MaxCoord == 1

MaxQueue == 1

(* Program constants *)

\* slider range of phi, in microradians: 0.0f .. M_PI * 2.
PhiMin == 0

PhiMax == 6283185

\* slider range of theta, in microradians: -M_PI_2 .. M_PI_2
ThetaMin == -1570796

ThetaMax == 1570796

\* initial values: phi = 0, theta = M_PI_2
PhiInit == 0

ThetaInit == 1570796

\* M_PI_2 in microradians
HalfPi == 1570796

----------------------------------------------------------------------------
(* Vectors and matrices *)

\* pointer positions, in pixels
Points == {p \in (0..MaxCoord) \X (0..MaxCoord) : p[1] + p[2] <= MaxCoord}

NoDownPos == <<-1, -1>>

Zero2 == <<0, 0>>

\* mutant: operands exchanged
Sub2_Swapped(a, b) == <<b[1] - a[1], b[2] - a[2]>>

Sub2(a, b) == <<a[1] - b[1], a[2] - b[2]>>

Dot3(a, b) == a[1] * b[1] + a[2] * b[2] + a[3] * b[3]

Cross3(a, b) == <<a[2] * b[3] - a[3] * b[2],
                  a[3] * b[1] - a[1] * b[3],
                  a[1] * b[2] - a[2] * b[1]>>

\* the multiple of pi/2 nearest to the angle a
Quarter(a) == (2 * a + HalfPi) \div (2 * HalfPi)

\* cos and sin of the angle a, to the nearest integer
Cos(a) == LET q == Quarter(a) % 4
          IN  IF q = 0 THEN 1 ELSE IF q = 2 THEN -1 ELSE 0

Sin(a) == LET q == Quarter(a) % 4
          IN  IF q = 1 THEN 1 ELSE IF q = 3 THEN -1 ELSE 0

\* x = r cos(theta) cos(phi), y = r sin(theta), z = r cos(theta) sin(phi)
sph2cart(phi, theta, r) ==
  <<r * Cos(theta) * Cos(phi),
    r * Sin(theta),
    r * Cos(theta) * Sin(phi)>>

\* shortest-arc rotation taking the Z axis to v, as the quaternion
\* (w, x, y, z) = (1 + Z.v, Z x v) before normalisation
betweenZ(v) ==
  LET z == <<0, 0, 1>>
      k == Cross3(z, v)
  IN  <<1 + Dot3(z, v), k[1], k[2], k[3]>>

\* rotation matrix of the quaternion q, normalised by 2/|q|^2 (|q|^2 is 2
\* for every direction the sliders reach, all of which are orthogonal to Z)
rotation(q) ==
  LET w == q[1]
      x == q[2]
      y == q[3]
      z == q[4]
      n == w * w + x * x + y * y + z * z
      s == 2 \div n
  IN  << <<1 - s * (y * y + z * z), s * (x * y - w * z), s * (x * z + w * y), 0>>,
         <<s * (x * y + w * z), 1 - s * (x * x + z * z), s * (y * z - w * x), 0>>,
         <<s * (x * z - w * y), s * (y * z + w * x), 1 - s * (x * x + y * y), 0>>,
         <<0, 0, 0, 1>> >>

\* a buffer is zero-filled until it is first written
ZeroMat == <<<<0, 0, 0, 0>>, <<0, 0, 0, 0>>, <<0, 0, 0, 0>>, <<0, 0, 0, 0>>>>

\* the matrix render() writes to the model buffer
ModelMatrix(phi, theta) == rotation(betweenZ(sph2cart(phi, theta, 1)))

\* view matrix from eye, view direction and up
lookAt(eye, dir, up) ==
  LET s == Cross3(dir, up)
      u == Cross3(s, dir)
  IN  << <<s[1], s[2], s[3], 0 - Dot3(s, eye)>>,
         <<u[1], u[2], u[3], 0 - Dot3(u, eye)>>,
         <<0 - dir[1], 0 - dir[2], 0 - dir[3], Dot3(dir, eye)>>,
         <<0, 0, 0, 1>> >>

\* the projection is kept as its parameters: fov in degrees, aspect as
\* width:height, near in tenths, far
perspective(fovDeg, width, height, nearTenths, far) ==
  [fovDeg |-> fovDeg, width |-> width, height |-> height,
   nearTenths |-> nearTenths, far |-> far]

\* the CameraUniform written by the constructor
InitialCamera ==
  [proj |-> perspective(45, 1280, 720, 1, 100),
   view |-> lookAt(<<0, 0, 5>>, <<0, 0, -1>>, <<0, 1, 0>>)]

\* no gesture in progress: nothing was captured
NoSnapshot == [camera |-> InitialCamera, model |-> ZeroMat]

----------------------------------------------------------------------------
(* Events and ImGui input *)

Events ==
  {[type |-> "quit"], [type |-> "down"], [type |-> "up"]}
    \cup {[type |-> "motion", pos |-> p] : p \in Points}

\* ImGui_ImplSDL3_ProcessEvent: the event is recorded as pending input
ProcessEvent(in, e) ==
  CASE e.type = "motion" -> [in EXCEPT !.pos = e.pos]
    [] e.type = "down"   -> [in EXCEPT !.down = TRUE]
    [] e.type = "up"     -> [in EXCEPT !.down = FALSE]
    [] OTHER             -> in

\* ImGui::NewFrame: the pending input becomes io.MousePos / io.MouseDown[0]
NewFrame(in) == [MousePos |-> in.pos, MouseDown |-> in.down]

Clamp(v, lo, hi) == IF v < lo THEN lo ELSE IF v > hi THEN hi ELSE v

\* RoundScalarWithFormat with "%.3f": the value printed with three decimals
\* and read back, i.e. rounded to a whole number of milliradians
RoundToFormat(v) == ((v + 500) \div 1000) * 1000

\* ImGui::SliderFloat(label, &v, lo, hi) with the default format "%.3f" and
\* no flags.
\*   mode "drag": the mouse is on the track at req halves of its length
\*     (past an end it counts as that end); the value at that place is
\*     rounded to the format and stored, with no clamp after the rounding.
\*   mode "typed": the text typed after Ctrl+Click, req, is stored as it is;
\*     without ImGuiSliderFlags_AlwaysClamp it is not clamped to [lo, hi].
\*   otherwise the widget is not active and v is left alone.
SliderFloat(v, lo, hi, mode, req) ==
  CASE mode = "drag"  -> RoundToFormat(lo + ((hi - lo) * Clamp(req, 0, 2)) \div 2)
    [] mode = "typed" -> req
    [] OTHER          -> v

\* ImGui::SliderFloat("phi", &state.phi, 0.0f, M_PI * 2.)
SliderPhi(v, mode, req) == SliderFloat(v, PhiMin, PhiMax, mode, req)

\* ImGui::SliderFloat("theta", &state.theta, -M_PI_2, M_PI_2)
SliderTheta(v, mode, req) == SliderFloat(v, ThetaMin, ThetaMax, mode, req)

\* mutant: the start point is captured on every frame with the button down
PointerTracker_Recapture(st, mouse) ==
  LET down == mouse.MouseDown
      downPos == IF down THEN mouse.MousePos ELSE NoDownPos
      delta == IF down THEN Sub2(mouse.MousePos, downPos) ELSE Zero2
  IN  [st EXCEPT !.isDown = down, !.downPos = downPos, !.delta = delta]

\* mutant: the release branch leaves the start point in place
PointerTracker_NoReset(st, mouse) ==
  LET down == mouse.MouseDown
      downPos == IF st.isDown # down /\ ~st.isDown THEN mouse.MousePos ELSE st.downPos
      delta == IF down THEN Sub2(mouse.MousePos, downPos) ELSE Zero2
  IN  [st EXCEPT !.isDown = down, !.downPos = downPos, !.delta = delta]

\* mutant: the release frame computes a last delta before the start point is reset
PointerTracker_FinalUpdate(st, mouse) ==
  LET down == mouse.MouseDown
      downPos == IF st.isDown # down
                 THEN IF ~st.isDown THEN mouse.MousePos ELSE NoDownPos
                 ELSE st.downPos
      delta == IF down THEN Sub2(mouse.MousePos, downPos)
               ELSE IF st.isDown THEN Sub2(mouse.MousePos, st.downPos) ELSE Zero2
  IN  [st EXCEPT !.isDown = down, !.downPos = downPos, !.delta = delta]

\* the pointer tracker of render(): st is Application::state, mouse the io
PointerTracker(st, mouse) ==
  LET down == mouse.MouseDown
      downPos == IF st.isDown # down
                 THEN IF ~st.isDown THEN mouse.MousePos ELSE NoDownPos
                 ELSE st.downPos
      delta == IF down THEN Sub2(mouse.MousePos, downPos) ELSE Zero2
  IN  [st EXCEPT !.isDown = down, !.downPos = downPos, !.delta = delta]

----------------------------------------------------------------------------
(* GPU calls of a frame *)

\* mutant: render() writes the camera buffer too
ModelOps_WithCamera == <<"writeCamera", "writeModel">>

ModelOps == <<"writeModel">>

\* mutant: the encoder is finished before the pass is ended, the cube drawn first
SceneOps_Misordered ==
  <<"createSurfaceView", "createEncoder", "createDepthView", "beginPass",
    "drawCube", "drawGnomon", "finish", "endPass", "releaseDepthView">>

SceneOps ==
  <<"createSurfaceView", "createEncoder", "createDepthView", "beginPass",
    "drawGnomon", "drawCube", "endPass", "finish", "releaseDepthView">>

UIOps == <<"imguiNewFrame", "imguiRender">>

SubmitOps ==
  <<"imguiCommand", "releaseSurfaceView", "submit", "releaseCommands", "present">>

Err(g, cond, what) == IF cond THEN g.errors \cup {what} ELSE g.errors

\* the effect of one GPU call on the per-frame objects
GpuApply(g, op) ==
  LET h == [g EXCEPT !.log = Append(g.log, op)]
  IN  CASE op = "createSurfaceView" ->
             [h EXCEPT !.liveViews = g.liveViews \cup {"surface"},
                       !.errors = Err(g, "surface" \in g.liveViews, "view leaked")]
        [] op = "createDepthView" ->
             [h EXCEPT !.liveViews = g.liveViews \cup {"depth"},
                       !.errors = Err(g, "depth" \in g.liveViews, "view leaked")]
        [] op = "createEncoder" -> [h EXCEPT !.encoder = "open"]
        [] op = "beginPass" ->
             [h EXCEPT !.pass = "open",
                       !.errors = Err(g, g.encoder # "open"
                                         \/ g.liveViews # {"surface", "depth"},
                                      "pass begun without encoder or attachments")]
        [] op \in {"drawGnomon", "drawCube"} ->
             [h EXCEPT !.errors = Err(g, g.pass # "open", "draw outside pass")]
        [] op = "endPass" ->
             [h EXCEPT !.pass = "ended",
                       !.errors = Err(g, g.pass # "open", "end of no pass")]
        [] op = "finish" ->
             [h EXCEPT !.encoder = "finished",
                       !.commands = Append(g.commands, "scene"),
                       !.liveCommands = g.liveCommands + 1,
                       !.errors = Err(g, g.encoder # "open" \/ g.pass # "ended",
                                      "finish with open pass")]
        [] op = "releaseDepthView" ->
             [h EXCEPT !.liveViews = g.liveViews \ {"depth"},
                       !.errors = Err(g, "depth" \notin g.liveViews, "double release")]
        [] op = "imguiCommand" ->
             [h EXCEPT !.commands = Append(g.commands, "ui"),
                       !.liveCommands = g.liveCommands + 1,
                       !.errors = Err(g, "surface" \notin g.liveViews,
                                      "ui pass on released view")]
        [] op = "releaseSurfaceView" ->
             [h EXCEPT !.liveViews = g.liveViews \ {"surface"},
                       !.errors = Err(g, "surface" \notin g.liveViews, "double release")]
        [] op = "submit" ->
             [h EXCEPT !.submitted = g.commands,
                       !.errors = Err(g, g.liveCommands # Len(g.commands),
                                      "submit of released commands")]
        [] op = "releaseCommands" ->
             [h EXCEPT !.liveCommands = g.liveCommands - Len(g.commands),
                       !.commands = <<>>]
        [] op = "writeCamera" -> [h EXCEPT !.cameraWrites = g.cameraWrites + 1]
        [] OTHER -> h

RECURSIVE GpuRun(_, _)
GpuRun(g, ops) ==
  IF ops = <<>> THEN g ELSE GpuRun(GpuApply(g, Head(ops)), Tail(ops))

\* a new call of render(): the locals of the previous call are gone
FrameStart(g) ==
  [g EXCEPT !.log = <<>>, !.submitted = <<>>, !.pass = "none", !.encoder = "none"]

----------------------------------------------------------------------------
(* Initial state: after Application::Application() *)

Init ==
  /\ pc = "poll"
  /\ running = TRUE
  /\ sdlQueued = 0
  /\ \E p \in Points : /\ pending = [pos |-> p, down |-> FALSE]
                       /\ io = [MousePos |-> p, MouseDown |-> FALSE]
  /\ state = [isDown |-> FALSE, downPos |-> NoDownPos, delta |-> Zero2,
              phi |-> PhiInit, theta |-> ThetaInit]
  /\ cameraUniform = InitialCamera
  /\ modelUniform = ZeroMat
  /\ gpu = [log |-> <<>>, liveViews |-> {}, commands |-> <<>>, liveCommands |-> 0,
            submitted |-> <<>>, pass |-> "none", encoder |-> "none",
            errors |-> {}, cameraWrites |-> 1]
  /\ preDrag = NoSnapshot
  /\ dragMoved = FALSE
  /\ dragEdited = FALSE
  /\ quitPolled = FALSE
  /\ rendersAfterQuit = 0
  /\ forwardedAfterQuit = FALSE

----------------------------------------------------------------------------
(* Actions *)

histDrag == <<preDrag, dragMoved, dragEdited>>

histQuit == <<quitPolled, rendersAfterQuit, forwardedAfterQuit>>

\* the environment queues an event in SDL (what the event is shows when it
\* is polled).  render() does not look at the queue: an event that arrives
\* while it runs is taken as arriving when the next round of polls begins.
Post ==
  /\ pc = "poll"
  /\ sdlQueued < MaxQueue
  /\ sdlQueued' = sdlQueued + 1
  /\ UNCHANGED <<pc, running, pending, io, state, cameraUniform, modelUniform, gpu,
                 histDrag, histQuit>>

\* mutant: the loop is left as soon as QUIT is polled
PollEvent_BreakOnQuit(e) ==
  /\ pc = "poll"
  /\ sdlQueued > 0
  /\ sdlQueued' = sdlQueued - 1
  /\ pending' = ProcessEvent(pending, e)
  /\ running' = IF e.type = "quit" THEN FALSE ELSE running
  /\ pc' = IF e.type = "quit" THEN "done" ELSE pc
  /\ quitPolled' = (quitPolled \/ e.type = "quit")
  /\ forwardedAfterQuit' = (forwardedAfterQuit \/ quitPolled)
  /\ UNCHANGED <<io, state, cameraUniform, modelUniform, gpu, histDrag,
                 rendersAfterQuit>>

\* while (SDL_PollEvent(&event)) { app.processEvent(&event); if QUIT running = false; }
PollEvent(e) ==
  /\ pc = "poll"
  /\ sdlQueued > 0
  /\ sdlQueued' = sdlQueued - 1
  /\ pending' = ProcessEvent(pending, e)
  /\ running' = IF e.type = "quit" THEN FALSE ELSE running
  /\ quitPolled' = (quitPolled \/ e.type = "quit")
  /\ forwardedAfterQuit' = (forwardedAfterQuit \/ quitPolled)
  /\ UNCHANGED <<pc, io, state, cameraUniform, modelUniform, gpu, histDrag,
                 rendersAfterQuit>>

\* SDL_PollEvent returns false: the loop body goes on to app.render()
PollEmpty ==
  /\ pc = "poll"
  /\ sdlQueued = 0
  /\ pc' = "model"
  /\ rendersAfterQuit' = IF quitPolled THEN rendersAfterQuit + 1 ELSE rendersAfterQuit
  /\ UNCHANGED <<running, sdlQueued, pending, io, state, cameraUniform, modelUniform,
                 gpu, histDrag, quitPolled, forwardedAfterQuit>>

\* mutant: the model buffer is not rewritten by render()
RenderModel_NoWrite ==
  /\ pc = "model"
  /\ gpu' = GpuRun(FrameStart(gpu), ModelOps)
  /\ pc' = "scene"
  /\ UNCHANGED <<running, sdlQueued, pending, io, state, cameraUniform, modelUniform,
                 histDrag, histQuit>>

\* mutant: while the button is down the pointer position turns the model,
\* half a turn for a pixel
RenderModel_FromPointer ==
  /\ pc = "model"
  /\ modelUniform' = ModelMatrix(state.phi + (IF state.isDown
                                              THEN io.MousePos[1] * (2 * HalfPi)
                                              ELSE 0),
                                 state.theta)
  /\ gpu' = GpuRun(FrameStart(gpu), ModelOps)
  /\ pc' = "scene"
  /\ UNCHANGED <<running, sdlQueued, pending, io, state, cameraUniform, histDrag,
                 histQuit>>

\* render(), first part: the model matrix from phi/theta, written to the buffer
RenderModel ==
  /\ pc = "model"
  /\ modelUniform' = ModelMatrix(state.phi, state.theta)
  /\ gpu' = GpuRun(FrameStart(gpu), ModelOps)
  /\ pc' = "scene"
  /\ UNCHANGED <<running, sdlQueued, pending, io, state, cameraUniform, histDrag,
                 histQuit>>

\* render(), second part: the scene pass is encoded
RenderScene ==
  /\ pc = "scene"
  /\ gpu' = GpuRun(gpu, SceneOps)
  /\ pc' = "ui"
  /\ UNCHANGED <<running, sdlQueued, pending, io, state, cameraUniform, modelUniform,
                 histDrag, histQuit>>

\* render(), third part: the ImGui frame; widget is the active widget of the
\* frame ("phi", "theta" or "none"), mode and req its input
RenderUI(widget, mode, req) ==
  /\ pc = "ui"
  /\ LET mouse == NewFrame(pending)
         tracked == PointerTracker(state, mouse)
         phi == SliderPhi(state.phi, IF widget = "phi" THEN mode ELSE "idle", req)
         theta == SliderTheta(state.theta, IF widget = "theta" THEN mode ELSE "idle", req)
         edited == phi # state.phi \/ theta # state.theta
         begun == ~state.isDown /\ tracked.isDown
         moved == IF begun THEN FALSE
                  ELSE IF state.isDown
                       THEN dragMoved \/ mouse.MousePos # state.downPos
                       ELSE dragMoved
     IN  /\ io' = mouse
         /\ state' = [tracked EXCEPT !.phi = phi, !.theta = theta]
         /\ dragMoved' = moved
         /\ preDrag' = IF begun
                       THEN [camera |-> cameraUniform, model |-> modelUniform]
                       ELSE IF tracked.isDown /\ ~moved THEN preDrag ELSE NoSnapshot
         /\ dragEdited' = IF begun THEN edited
                          ELSE IF tracked.isDown /\ ~moved
                               THEN dragEdited \/ edited
                               ELSE FALSE
  /\ gpu' = GpuRun(gpu, UIOps)
  /\ pc' = "submit"
  /\ UNCHANGED <<running, sdlQueued, pending, cameraUniform, modelUniform,
                 histQuit>>

\* render(), last part: UI commands, submission, present; then the loop test
RenderSubmit ==
  /\ pc = "submit"
  /\ gpu' = GpuRun(gpu, SubmitOps)
  /\ pc' = IF running THEN "poll" ELSE "done"
  /\ UNCHANGED <<running, sdlQueued, pending, io, state, cameraUniform, modelUniform,
                 histDrag, histQuit>>

\* one widget is active at a time: at most one slider is edited in a frame.
\* A drag puts the mouse at either end of the track, at its middle, or past
\* an end; the texts typed are "9.425" into phi and "-3.142" into theta.
SliderInputs ==
  {<<"none", "idle", 0>>}
    \cup {<<w, "drag", t>> : w \in {"phi", "theta"}, t \in -1..3}
    \cup {<<"phi", "typed", 9425000>>, <<"theta", "typed", -3142000>>}

Next ==
  \/ Post
  \/ \E e \in Events : PollEvent(e)
  \/ PollEmpty
  \/ RenderModel
  \/ RenderScene
  \/ \E in \in SliderInputs : RenderUI(in[1], in[2], in[3])
  \/ RenderSubmit

Spec == Init /\ [][Next]_vars

----------------------------------------------------------------------------
(* Properties *)

Has(op) == \E i \in 1..Len(gpu.log) : gpu.log[i] = op

Count(op) == Cardinality({i \in 1..Len(gpu.log) : gpu.log[i] = op})

\* a call of a precedes a call of b in the frame's log
Before(a, b) ==
  \E i \in 1..Len(gpu.log) :
    gpu.log[i] = a /\ \E j \in (i + 1)..Len(gpu.log) : gpu.log[j] = b

FrameComplete == gpu.log # <<>> /\ gpu.log[Len(gpu.log)] = "present"

UIStep == pc = "ui" /\ pc' = "submit"

\* C1: on the frame that first sees the button down while Idle the tracker
\* becomes Dragging and downPos is the pointer position sampled in that
\* frame; on every later frame with the button still down downPos keeps
\* its value, wherever the pointer is.
C1_DragStartCapture ==
  [][UIStep /\ pending.down =>
       /\ state'.isDown
       /\ io'.MousePos = pending.pos
       /\ state'.downPos = IF state.isDown THEN state.downPos ELSE pending.pos]_vars

\* a gesture in a later frame, the pointer away from the captured start
C1_Witness ==
  state.isDown /\ state.downPos \in Points /\ io.MousePos # state.downPos

\* C2: in every state, while Dragging the drag delta is the sampled pointer
\* position minus downPos, component by component, and while Idle it is (0,0).
C2_DeltaIsPointerMinusStart ==
  /\ state.isDown =>
       /\ state.delta[1] = io.MousePos[1] - state.downPos[1]
       /\ state.delta[2] = io.MousePos[2] - state.downPos[2]
  /\ ~state.isDown => state.delta = <<0, 0>>

\* Dragging with a delta that is nonzero in both components
C2_Witness ==
  state.isDown /\ state.delta[1] # 0 /\ state.delta[2] # 0

\* C3: in every state in which the tracker is Idle, the initial one included,
\* downPos holds the sentinel (-1,-1).
C3_IdleHoldsSentinel == ~state.isDown => state.downPos = NoDownPos

\* Idle again after a gesture in which the pointer moved
C3_Witness == ~state.isDown /\ dragMoved /\ state.downPos = NoDownPos

\* C4 as claimed: on the frame that first sees the button released while
\* Dragging, a final update leaves delta = release pointer - downPos of the
\* gesture, and the tracker goes Idle.
C4_Original ==
  [][UIStep /\ state.isDown /\ ~pending.down =>
       /\ ~state'.isDown
       /\ state'.delta = <<pending.pos[1] - state.downPos[1],
                           pending.pos[2] - state.downPos[2]>>]_vars

\* C4 as amended: on the frame that first sees the button released while
\* Dragging, the tracker goes Idle, downPos is reset to the sentinel and the
\* delta is set to (0,0); no update with the release position is made.
C4_DragEndResets ==
  [][UIStep /\ state.isDown /\ ~pending.down =>
       /\ ~state'.isDown
       /\ state'.downPos = NoDownPos
       /\ state'.delta = <<0, 0>>
       /\ io'.MousePos = pending.pos]_vars

\* a gesture was released away from its start point, and the delta is (0,0)
C4_Witness ==
  pc = "submit" /\ ~state.isDown /\ dragMoved /\ state.delta = <<0, 0>>

\* C5 as claimed: the model matrix the frame submits is derived from the
\* phi/theta values as updated by the sliders in that frame.
C5_Original ==
  pc = "submit" => modelUniform = ModelMatrix(state.phi, state.theta)

\* C5 as amended: a frame runs model write, scene pass, UI update, submission
\* in that order and to completion before the next poll; the model matrix it
\* writes is derived from phi/theta as they stand when render() is entered
\* (the values the previous frame left), and the slider update of the frame
\* does not reach the buffer before the next frame.
C5_ModelFromFrameStart ==
  /\ [](pc \in {"scene", "ui"} => modelUniform = ModelMatrix(state.phi, state.theta))
  /\ [][(pc = "ui" \/ pc = "submit") => modelUniform' = modelUniform]_vars
  /\ [][pc' # pc =>
          <<pc, pc'>> \in {<<"poll", "model">>, <<"model", "scene">>, <<"scene", "ui">>,
                           <<"ui", "submit">>, <<"submit", "poll">>,
                           <<"submit", "done">>}]_vars

\* a frame about to submit a model matrix that its own slider edit outdated
C5_Witness ==
  pc = "submit" /\ modelUniform # ModelMatrix(state.phi, state.theta)

\* C6 as claimed: every call of render() writes the camera uniform as well
\* as the model uniform before the draw is submitted.
C6_Original ==
  FrameComplete => Before("writeCamera", "submit") /\ Before("writeModel", "submit")

\* C6 as amended: the camera uniform (view and projection) is written once,
\* by the constructor, and never by render(); every call of render() writes
\* the model uniform before the draw is submitted.
C6_CameraWrittenOnce ==
  /\ cameraUniform = InitialCamera
  /\ gpu.cameraWrites = 1
  /\ ~Has("writeCamera")
  /\ Has("submit") => Before("writeModel", "submit")

\* a frame was rendered to the end
C6_Witness == FrameComplete /\ Has("writeModel") /\ modelUniform # ZeroMat

\* C7 as claimed: while a gesture has kept the pointer on its start point,
\* the camera uniform and the model matrix are those of before the gesture.
C7_Original ==
  state.isDown /\ ~dragMoved =>
    cameraUniform = preDrag.camera /\ modelUniform = preDrag.model

\* C7 as amended: while a gesture has kept the pointer on its start point,
\* the camera uniform is the one of before the gesture, and so is the model
\* matrix unless a slider value changed during the gesture.
C7_ZeroDeltaDrag ==
  state.isDown /\ ~dragMoved =>
    /\ cameraUniform = preDrag.camera
    /\ ~dragEdited => modelUniform = preDrag.model

\* the model matrix of a frame after the begin frame, pointer on the start point
C7_Witness ==
  /\ pc = "scene"
  /\ state.isDown /\ ~dragMoved /\ ~dragEdited
  /\ state.delta = <<0, 0>>
  /\ modelUniform = preDrag.model

\* C8: in every reachable state, from the initial values and after any
\* sequence of slider edits, phi lies in [0, 2*pi) and theta in
\* [-pi/2, pi/2].
C8_AnglesInRange ==
  /\ PhiMin <= state.phi /\ state.phi < PhiMax
  /\ ThetaMin <= state.theta /\ state.theta <= ThetaMax

\* C9: once QUIT is polled the events still queued in that round are
\* forwarded, render() is called exactly once more and the loop ends with no
\* further poll or render; the loop ends only after a QUIT; render() is
\* entered only with the queue drained, once per iteration.
C9_Shutdown ==
  /\ [](running = ~quitPolled)
  /\ [](pc = "done" => quitPolled /\ rendersAfterQuit = 1)
  /\ [](quitPolled /\ pc = "poll" => rendersAfterQuit = 0)
  /\ [](quitPolled /\ pc \notin {"poll", "done"} => rendersAfterQuit = 1)
  /\ [][pc = "poll" /\ pc' # "poll" => sdlQueued = 0 /\ pc' = "model"]_vars
  /\ [][pc = "poll" /\ sdlQueued' < sdlQueued =>
          /\ sdlQueued' = sdlQueued - 1
          /\ \E e \in Events : pending' = ProcessEvent(pending, e)]_vars
  /\ [][pc = "submit" /\ pc' # pc => pc' = IF quitPolled THEN "done" ELSE "poll"]_vars
  /\ [][pc = "done" => UNCHANGED <<pc, gpu, pending>>]_vars

\* the loop has ended, after forwarding an event that followed QUIT
C9_Witness == pc = "done" /\ forwardedAfterQuit /\ rendersAfterQuit = 1

\* C10: in every frame the gnomon is drawn before the cube, the pass is ended
\* before the encoder is finished, the commands submitted are [scene, ui],
\* each view is released once and before present, submit precedes the
\* release of the commands, which precedes present, and between frames no
\* per-frame view or command buffer is live.
C10_FrameOrderAndBalance ==
  /\ gpu.errors = {}
  /\ \A op \in {"drawGnomon", "drawCube", "endPass", "finish", "submit", "present",
                "releaseSurfaceView", "releaseDepthView", "releaseCommands"} :
       Count(op) <= 1
  /\ Has("drawCube") => Before("drawGnomon", "drawCube")
  /\ Has("endPass") => Before("drawCube", "endPass")
  /\ Has("finish") => Before("endPass", "finish")
  /\ Has("submit") => gpu.submitted = <<"scene", "ui">>
  /\ Has("present") =>
       /\ Before("releaseSurfaceView", "present")
       /\ Before("releaseDepthView", "present")
       /\ Before("submit", "releaseCommands")
       /\ Before("releaseCommands", "present")
  /\ pc \in {"poll", "model", "done"} =>
       gpu.liveViews = {} /\ gpu.liveCommands = 0 /\ gpu.commands = <<>>

\* a frame was submitted and presented, nothing of it is live
C10_Witness ==
  /\ pc = "poll"
  /\ FrameComplete
  /\ gpu.submitted = <<"scene", "ui">>
  /\ gpu.liveViews = {} /\ gpu.liveCommands = 0

====
